---- MODULE Spec2Model ----
(***************************************************************************)
(* Model of src/multistub.ts: getMultiStub builds a Proxy over the first   *)
(* Durable Object stub of a list; a method call on the proxy is made on    *)
(* the first stub and its result returned, and the same call is made on    *)
(* the other stubs inside a background promise handed to ctx.waitUntil.    *)
(*                                                                         *)
(* One JavaScript turn is one action.  A promise continuation runs in the  *)
(* microtask checkpoint of the settlement that enables it, so a settlement *)
(* and the continuations it releases are one step.                         *)
(***************************************************************************)
EXTENDS Integers, Sequences, FiniteSets, Bags, TLC

\* Bounds of the model.
MaxReplicas == 3    \* longest configs list handed to getMultiStub
MaxCalls == 2       \* member accesses made through one proxy
MaxRepeat == 2      \* calls of one location function on one request

None == "undefined"
Fn == "function"

\* Members the caller accesses on the proxy: a method of the Durable Object
\* class and the stub's own `name` property.
Members == {"setMessage", "name"}

\* The argument list the caller passes in its j-th call through the proxy.
ArgPool == << <<"hi">>, <<"k", "v">>, <<>>, <<"hi">> >>
ArgsAt(j) == {ArgPool[j]}

\* What a remote invocation resolves with / fails with.
Values == {"done"}
Errors == {"E"}

EmptyConfigError == "At least one DO configuration is required"
MissingKeyError == "Either name or id must be provided for each DO config"

(***************************************************************************)
(* MultiStubConfig values the caller can put at position p of the list.    *)
(***************************************************************************)
NamePool == <<"a", "b", "c", "d", "e">>
HintPool == <<"wnam", None, "weur", "enam", None>>

MultiStubConfig(p) ==
    IF p % 2 = 1
    THEN [name |-> NamePool[p], id |-> None, config |-> HintPool[p]]
    ELSE [name |-> "", id |-> NamePool[p], config |-> HintPool[p]]

BadConfigs ==
    { [name |-> None, id |-> None, config |-> "wnam"],
      [name |-> "", id |-> "", config |-> None] }

ConfigsAt(p) == {MultiStubConfig(p)} \cup BadConfigs

ConfigLists ==
    UNION { { c \in [1..n -> UNION {ConfigsAt(p) : p \in 1..n}] :
                \A p \in 1..n : c[p] \in ConfigsAt(p) } : n \in 0..MaxReplicas }

(***************************************************************************)
(* The namespace (directory) and the stubs it hands out.                   *)
(***************************************************************************)
Truthy(s) == s # None /\ s # ""

idFromName(name) == [from |-> "name", key |-> name]
idFromString(id) == [from |-> "string", key |-> id]

NamespaceGet(id, options) == [id |-> id, options |-> options]

NoStub == NamespaceGet(idFromString(None), None)

(***************************************************************************)
(* Location resolver: getGlobalConfig, getClosestLocation, getClosestStub. *)
(***************************************************************************)
\* The locations array of getGlobalConfig.
locations == <<"wnam", "enam", "sam", "weur", "eeur", "apac", "oc", "afr", "me">>

\* Faulty variants of getGlobalConfig: the last location is left out; every
\* config carries the hint of the first location.
getGlobalConfig_MissingLocation ==
    [k \in 1..(Len(locations) - 1) |->
        [name |-> "global-" \o locations[k], id |-> None, config |-> locations[k]]]

getGlobalConfig_SameHint ==
    [k \in 1..Len(locations) |->
        [name |-> "global-" \o locations[k], id |-> None, config |-> locations[1]]]

\* getGlobalConfig(): one config per location, in the order of the array.  A
\* config's options {locationHint: location} are modelled by the location.
getGlobalConfig ==
    [k \in 1..Len(locations) |->
        [name |-> "global-" \o locations[k], id |-> None, config |-> locations[k]]]

Group(colos, location) == [c \in colos |-> location]

\* The locationMap object of getClosestLocation.
locationMap ==
    Group({"SFO", "LAX", "SEA", "DEN", "PHX", "SJC", "PDX", "LAS", "SLC"}, "wnam")
    @@ Group({"NYC", "MIA", "ATL", "BOS", "CHI", "DFW", "IAD", "ORD", "YYZ"}, "enam")
    @@ Group({"GRU", "SCL", "BOG", "LIM", "EZE"}, "sam")
    @@ Group({"LHR", "CDG", "AMS", "FRA", "MAD", "MAN", "DUB", "ZUR", "MXP"}, "weur")
    @@ Group({"WAW", "BUD", "PRG", "VIE", "BUH", "SOF", "ATH", "HEL"}, "eeur")
    @@ Group({"NRT", "HKG", "SIN", "ICN", "TPE", "BOM", "DEL", "BKK", "KUL", "MNL",
              "CGK", "PVG"}, "apac")
    @@ Group({"SYD", "MEL", "PER", "BNE", "AKL"}, "oc")
    @@ Group({"CPT", "JNB", "LOS", "CAI", "CAS"}, "afr")
    @@ Group({"DXB", "DOH", "KWI", "BAH", "AMM", "TLV", "RUH"}, "me")

\* Requests: request.cf absent, or present with colo absent, empty, an airport
\* code of the map, or an airport code the map does not have.
Requests ==
    {[hasCf |-> FALSE, colo |-> None]}
    \cup {[hasCf |-> TRUE, colo |-> c] : c \in DOMAIN locationMap \cup {None, "", "XYZ", "KEF"}}

\* Faulty variant of getClosestLocation: no fallback for a colo the map lacks.
getClosestLocation_NoFallback(req) ==
    IF ~req.hasCf \/ ~Truthy(req.colo) THEN "wnam"
    ELSE IF req.colo \in DOMAIN locationMap THEN locationMap[req.colo]
    ELSE None

\* getClosestLocation(request).
getClosestLocation(req) ==
    IF ~req.hasCf \/ ~Truthy(req.colo) THEN "wnam"
    ELSE IF req.colo \in DOMAIN locationMap THEN locationMap[req.colo]
    ELSE "wnam"

\* Faulty variant of getClosestStub: the request is ignored.
getClosestStub_IgnoresRequest(req) ==
    [ok |-> TRUE, stub |-> NamespaceGet(idFromName("global-wnam"), "wnam")]

\* getClosestStub(namespace, request): the stub, or the thrown Error.
getClosestStub(req) ==
    LET location == getClosestLocation(req)
        config == [name |-> "global-" \o location, id |-> None, config |-> location]
    IN IF Truthy(config.name)
       THEN [ok |-> TRUE, stub |-> NamespaceGet(idFromName(config.name), config.config)]
       ELSE [ok |-> FALSE, stub |-> NoStub]

(***************************************************************************)
(* State.                                                                  *)
(***************************************************************************)
VARIABLES
    legacy,         \* ids of the Durable Objects whose class has no setMessage method
    proxy,          \* "none" before getMultiStub, then "built" or "failed"
    configs,        \* the list getMultiStub was called with
    thrown,         \* the message of the Error getMultiStub threw, or None
    resolved,       \* the namespace.get calls getMultiStub made, in order
    stubs,          \* the stubs the proxy closes over (stubs[1] is primaryStub)
    calls,          \* one record per call of a wrapped function, in call order
    reads,          \* one record per non-function member read through the proxy
    received,       \* received[i]: the invocations stub i got, in order
    waitUntil,      \* the promises handed to ctx.waitUntil, as indexes into calls
    consoleErrors,  \* bag of the console.error reports
    request,        \* the inbound Request the location functions are applied to
    lookups,        \* the results of the getClosestLocation(request) calls, in order
    globalConfigCalls,  \* the results of the getGlobalConfig() calls, in order
    reader          \* the stub getGlobalStubs returned as reader, NoStub before

\* The state of the location functions and of getGlobalStubs.
gvars == <<request, lookups, globalConfigCalls, reader>>

vars == <<legacy, proxy, configs, thrown, resolved, stubs, calls, reads,
          received, waitUntil, consoleErrors, gvars>>

(***************************************************************************)
(* getMultiStub: construction.                                             *)
(***************************************************************************)
\* The callback of configs.map: the stub of one config, or the thrown Error.
ResolveStub(config) ==
    IF Truthy(config.name)
    THEN [ok |-> TRUE, stub |-> NamespaceGet(idFromName(config.name), config.config)]
    ELSE IF Truthy(config.id)
    THEN [ok |-> TRUE, stub |-> NamespaceGet(idFromString(config.id), config.config)]
    ELSE [ok |-> FALSE, stub |-> NamespaceGet(idFromString(None), None)]

\* Array.prototype.map runs the callback in index order and stops at the first
\* throw: the index of the first config whose callback throws, 0 if none does.
FirstThrow(cfgs) ==
    LET bad == {p \in 1..Len(cfgs) : ~ResolveStub(cfgs[p]).ok}
    IN IF bad = {} THEN 0 ELSE CHOOSE p \in bad : \A q \in bad : p <= q

\* Faulty variants of GetMultiStubResult: an empty list falls back to a default
\* config instead of throwing; a config without name and id is skipped instead
\* of throwing.
GetMultiStubResult_DefaultOnEmpty(cfgs) ==
    LET use == IF Len(cfgs) = 0 THEN <<MultiStubConfig(1)>> ELSE cfgs
        k == FirstThrow(use)
    IN IF k # 0
       THEN [proxy |-> "failed", thrown |-> MissingKeyError,
             resolved |-> [p \in 1..(k - 1) |-> ResolveStub(use[p]).stub],
             stubs |-> <<>>]
       ELSE LET all == [p \in 1..Len(use) |-> ResolveStub(use[p]).stub]
            IN [proxy |-> "built", thrown |-> None, resolved |-> all, stubs |-> all]

GetMultiStubResult_SkipMalformed(cfgs) ==
    LET use == SelectSeq(cfgs, LAMBDA c : ResolveStub(c).ok)
    IN IF Len(use) = 0
       THEN [proxy |-> "failed", thrown |-> EmptyConfigError,
             resolved |-> <<>>, stubs |-> <<>>]
       ELSE LET all == [p \in 1..Len(use) |-> ResolveStub(use[p]).stub]
            IN [proxy |-> "built", thrown |-> None, resolved |-> all, stubs |-> all]

\* Faulty variant of GetMultiStubResult: the stubs are kept in reverse order.
GetMultiStubResult_Reversed(cfgs) ==
    IF Len(cfgs) = 0
    THEN [proxy |-> "failed", thrown |-> EmptyConfigError,
          resolved |-> <<>>, stubs |-> <<>>]
    ELSE LET k == FirstThrow(cfgs)
         IN IF k # 0
            THEN [proxy |-> "failed", thrown |-> MissingKeyError,
                  resolved |-> [p \in 1..(k - 1) |-> ResolveStub(cfgs[p]).stub],
                  stubs |-> <<>>]
            ELSE LET all == [p \in 1..Len(cfgs) |-> ResolveStub(cfgs[p]).stub]
                 IN [proxy |-> "built", thrown |-> None, resolved |-> all,
                     stubs |-> [p \in 1..Len(cfgs) |-> all[Len(cfgs) + 1 - p]]]

\* What one call getMultiStub(namespace, ctx, cfgs) does and yields.
GetMultiStubResult(cfgs) ==
    IF Len(cfgs) = 0
    THEN [proxy |-> "failed", thrown |-> EmptyConfigError,
          resolved |-> <<>>, stubs |-> <<>>]
    ELSE LET k == FirstThrow(cfgs)
         IN IF k # 0
            THEN [proxy |-> "failed", thrown |-> MissingKeyError,
                  resolved |-> [p \in 1..(k - 1) |-> ResolveStub(cfgs[p]).stub],
                  stubs |-> <<>>]
            ELSE LET all == [p \in 1..Len(cfgs) |-> ResolveStub(cfgs[p]).stub]
                 IN [proxy |-> "built", thrown |-> None,
                     resolved |-> all, stubs |-> all]

GetMultiStub(cfgs) ==
    /\ proxy = "none"
    /\ LET r == GetMultiStubResult(cfgs)
       IN /\ proxy' = r.proxy
          /\ thrown' = r.thrown
          /\ resolved' = r.resolved
          /\ stubs' = r.stubs
          /\ received' = [i \in 1..Len(r.stubs) |-> <<>>]
    /\ configs' = cfgs
    /\ UNCHANGED <<legacy, calls, reads, waitUntil, consoleErrors, gvars>>

(***************************************************************************)
(* Members of a stub.                                                      *)
(***************************************************************************)
\* stub[prop]: the stub's own name property, or the RPC method of the class
\* deployed at the stub's id.
MemberValue(stub, prop) ==
    IF prop = "name"
    THEN (IF stub.id.from = "name" THEN stub.id.key ELSE None)
    ELSE (IF stub.id \in legacy THEN None ELSE Fn)

TypeOf(v) ==
    IF v = Fn THEN "function" ELSE IF v = None THEN "undefined" ELSE "string"

(***************************************************************************)
(* The Proxy get trap: a member that is not a function.                    *)
(***************************************************************************)
\* Faulty variant of GetTrapResult: only functions are passed through.
GetTrapResult_Undefined(target, prop) == None

\* What the get trap returns for a member of target that is not a function.
GetTrapResult(target, prop) == MemberValue(target, prop)

Budget == Len(calls) + Len(reads) < MaxCalls

ReadMember(prop) ==
    /\ proxy = "built"
    /\ Budget
    /\ TypeOf(MemberValue(stubs[1], prop)) # "function"
    /\ reads' = Append(reads, [prop |-> prop, result |-> GetTrapResult(stubs[1], prop)])
    /\ UNCHANGED <<legacy, proxy, configs, thrown, resolved, stubs, calls,
                   received, waitUntil, consoleErrors, gvars>>

(***************************************************************************)
(* The wrapped function the get trap returns for a function member.        *)
(***************************************************************************)
SecondaryIndexes == 2..Len(stubs)

Promise(state, value) == [state |-> state, value |-> value]

\* primaryStub[prop](...args): the call throws, or returns a pending promise.
PrimaryResult(sync) ==
    IF sync = "returns" THEN Promise("pending", None) ELSE Promise("threw", sync)

\* The argument list the secondaries are called with.
SecondaryArgs(args) == args

\* Faulty variant of SecondaryCallable: the member is called unchecked.
SecondaryCallable_Unchecked(i, prop) == TRUE

\* typeof stub[prop] === "function" on a secondary stub.
SecondaryCallable(i, prop) == TypeOf(MemberValue(stubs[i], prop)) = "function"

\* Faulty variant of SecondaryStart: the secondaries are called in a plain loop
\* with no try/catch, so a throw of an earlier one ends the loop.
SecondaryStart_NoIsolation(i, prop, sync) ==
    IF \/ ~SecondaryCallable(i, prop)
       \/ \E j \in 2..(i - 1) : SecondaryCallable(j, prop) /\ sync[j] # "returns"
    THEN Promise("skipped", None)
    ELSE IF sync[i] = "returns" THEN Promise("pending", None)
    ELSE Promise("rejected", sync[i])

\* The synchronous part of the async callback of secondaryStubs.map for stub i:
\* sync[i] is what method(...args) does there (returns a promise or throws).
SecondaryStart(i, prop, sync) ==
    IF ~SecondaryCallable(i, prop) THEN Promise("skipped", None)
    ELSE IF sync[i] = "returns" THEN Promise("pending", None)
    ELSE Promise("rejected", sync[i])

\* The promise of the async callback for a secondary: the try/catch turns a
\* failed invocation into a fulfilled callback.
CallbackPromise(sec) ==
    IF sec.state = "pending" THEN "pending" ELSE "fulfilled"

\* Faulty variant of BackgroundExecution: Promise.race in place of allSettled.
BackgroundExecution_Race(sec) ==
    IF \A i \in DOMAIN sec : CallbackPromise(sec[i]) = "pending"
    THEN "pending" ELSE "fulfilled"

\* backgroundExecution(): await Promise.allSettled(promises).
BackgroundExecution(sec) ==
    IF \E i \in DOMAIN sec : CallbackPromise(sec[i]) = "pending"
    THEN "pending" ELSE "fulfilled"

\* Faulty variants of ReturnedToCaller: the wrapped function returns
\* Promise.all([primaryResult, ...secondary promises]) mapped to the primary's
\* value; the wrapped function awaits the background work before it hands
\* back the primary's outcome.
ReturnedToCaller_All(primary, sec) ==
    CASE primary.state = "threw" -> [state |-> "raised", value |-> primary.value]
      [] primary.state = "rejected" -> [state |-> "raised", value |-> primary.value]
      [] OTHER ->
            LET failed == {i \in DOMAIN sec : sec[i].state = "rejected"}
            IN IF failed # {}
               THEN [state |-> "raised",
                     value |-> sec[CHOOSE i \in failed : \A j \in failed : i <= j].value]
               ELSE IF primary.state = "fulfilled"
                       /\ \A i \in DOMAIN sec : sec[i].state # "pending"
               THEN [state |-> "returned", value |-> primary.value]
               ELSE [state |-> "awaiting", value |-> None]

ReturnedToCaller_AwaitsBackground(primary, sec) ==
    CASE primary.state = "threw" -> [state |-> "raised", value |-> primary.value]
      [] \/ primary.state = "pending"
         \/ \E i \in DOMAIN sec : sec[i].state = "pending" ->
            [state |-> "awaiting", value |-> None]
      [] primary.state = "fulfilled" -> [state |-> "returned", value |-> primary.value]
      [] primary.state = "rejected" -> [state |-> "raised", value |-> primary.value]

\* What the caller of the wrapped function holds: the thrown error, or the
\* promise primaryResult itself.
ReturnedToCaller(primary, sec) ==
    CASE primary.state = "threw" -> [state |-> "raised", value |-> primary.value]
      [] primary.state = "pending" -> [state |-> "awaiting", value |-> None]
      [] primary.state = "fulfilled" -> [state |-> "returned", value |-> primary.value]
      [] primary.state = "rejected" -> [state |-> "raised", value |-> primary.value]

\* Faulty variant of ConsoleError: the report does not name the method.
ConsoleError_NoMethod(prop, i, error) == [prop |-> None, error |-> error]

\* The console.error report of the catch block.
ConsoleError(prop, i, error) == [prop |-> prop, error |-> error]

\* The reports made for the secondaries that have just become rejected.
NewReports(prop, before, after) ==
    LET S == {i \in DOMAIN after :
                 /\ after[i].state = "rejected"
                 /\ (i \notin DOMAIN before \/ before[i].state # "rejected")}
        R == {ConsoleError(prop, i, after[i].value) : i \in S}
    IN [r \in R |-> Cardinality({i \in S : ConsoleError(prop, i, after[i].value) = r})]

NoSecondaries == [i \in {} |-> Promise("skipped", None)]

\* Faulty variant of WrappedFunction: the background promise is registered
\* but the secondaries are not called before the wrapped function returns.
WrappedFunction_FanOutNotStarted(prop, args, psync, sync) ==
    LET primary == PrimaryResult(psync)
        fanout == primary.state # "threw" /\ Len(stubs) > 1
        sec == IF fanout
               THEN [i \in SecondaryIndexes |-> Promise("skipped", None)]
               ELSE NoSecondaries
    IN [call |-> [prop |-> prop, args |-> args, primary |-> primary, sec |-> sec,
                  background |-> IF fanout THEN BackgroundExecution(sec) ELSE "none",
                  caller |-> ReturnedToCaller(primary, sec)],
        registers |-> fanout,
        invoked |-> {1}]

\* One call proxy[prop](...args): psync and sync are what the stubs' methods do
\* when called (return a promise, or throw an error).
WrappedFunction(prop, args, psync, sync) ==
    LET primary == PrimaryResult(psync)
        fanout == primary.state # "threw" /\ Len(stubs) > 1
        sec == IF fanout
               THEN [i \in SecondaryIndexes |-> SecondaryStart(i, prop, sync)]
               ELSE NoSecondaries
    IN [call |-> [prop |-> prop, args |-> args, primary |-> primary, sec |-> sec,
                  background |-> IF fanout THEN BackgroundExecution(sec) ELSE "none",
                  caller |-> ReturnedToCaller(primary, sec)],
        registers |-> fanout,
        invoked |-> {1} \cup {i \in DOMAIN sec : sec[i].state # "skipped"}]

ProxyCall(prop, args) ==
    /\ proxy = "built"
    /\ Budget
    /\ TypeOf(MemberValue(stubs[1], prop)) = "function"
    /\ \A c \in DOMAIN calls : calls[c].caller.state # "awaiting"
    /\ \E psync \in {"returns"} \cup Errors,
          sync \in [SecondaryIndexes -> {"returns"} \cup Errors] :
          LET w == WrappedFunction(prop, args, psync, sync)
          IN /\ calls' = Append(calls, w.call)
             /\ received' =
                    [i \in DOMAIN stubs |->
                        IF i \in w.invoked
                        THEN Append(received[i],
                                    [prop |-> prop,
                                     args |-> IF i = 1 THEN args ELSE SecondaryArgs(args)])
                        ELSE received[i]]
             /\ waitUntil' = IF w.registers
                             THEN Append(waitUntil, Len(calls) + 1) ELSE waitUntil
             /\ consoleErrors' = consoleErrors (+) NewReports(prop, NoSecondaries, w.call.sec)
    /\ UNCHANGED <<legacy, proxy, configs, thrown, resolved, stubs, reads, gvars>>

(***************************************************************************)
(* Settlement of the remote invocations.                                   *)
(***************************************************************************)
\* Faulty variant of Settle: a secondary invocation that rejects is made again.
Settle_Retry(c, primary, sec) ==
    LET again == {i \in DOMAIN sec :
                     sec[i].state = "rejected" /\ calls[c].sec[i].state = "pending"}
        retried == [i \in DOMAIN sec |->
                       IF i \in again THEN Promise("pending", None) ELSE sec[i]]
    IN /\ calls' = [calls EXCEPT ![c] =
                       [@ EXCEPT !.primary = primary,
                                 !.sec = retried,
                                 !.background = IF @ = "none" THEN "none"
                                                ELSE BackgroundExecution(retried),
                                 !.caller = ReturnedToCaller(primary, retried)]]
       /\ received' = [i \in DOMAIN received |->
                          IF i \in again
                          THEN Append(received[i],
                                      [prop |-> calls[c].prop, args |-> calls[c].args])
                          ELSE received[i]]
       /\ UNCHANGED <<legacy, proxy, configs, thrown, resolved, stubs, reads,
                      waitUntil, consoleErrors, gvars>>

Settle(c, primary, sec) ==
    /\ calls' = [calls EXCEPT ![c] =
                    [@ EXCEPT !.primary = primary,
                              !.sec = sec,
                              !.background = IF @ = "none" THEN "none"
                                             ELSE BackgroundExecution(sec),
                              !.caller = ReturnedToCaller(primary, sec)]]
    /\ consoleErrors' = consoleErrors (+) NewReports(calls[c].prop, calls[c].sec, sec)
    /\ UNCHANGED <<legacy, proxy, configs, thrown, resolved, stubs, reads,
                   received, waitUntil, gvars>>

PrimaryFulfils(c) ==
    /\ calls[c].primary.state = "pending"
    /\ \E v \in Values : Settle(c, Promise("fulfilled", v), calls[c].sec)

PrimaryRejects(c) ==
    /\ calls[c].primary.state = "pending"
    /\ \E e \in Errors : Settle(c, Promise("rejected", e), calls[c].sec)

SecondaryFulfils(c, i) ==
    /\ calls[c].sec[i].state = "pending"
    /\ \E v \in Values :
          Settle(c, calls[c].primary,
                 [calls[c].sec EXCEPT ![i] = Promise("fulfilled", v)])

SecondaryRejects(c, i) ==
    /\ calls[c].sec[i].state = "pending"
    /\ \E e \in Errors :
          Settle(c, calls[c].primary,
                 [calls[c].sec EXCEPT ![i] = Promise("rejected", e)])

(***************************************************************************)
(* Specification.                                                          *)
(***************************************************************************)
\* The ids the configs of the model resolve to.
ActorIds == {ResolveStub(MultiStubConfig(p)).stub.id : p \in 1..MaxReplicas}

Init ==
    /\ legacy \in {S \in SUBSET ActorIds : Cardinality(S) <= 1}
    /\ proxy = "none"
    /\ configs = <<>>
    /\ thrown = None
    /\ resolved = <<>>
    /\ stubs = <<>>
    /\ calls = <<>>
    /\ reads = <<>>
    /\ received = <<>>
    /\ waitUntil = <<>>
    /\ consoleErrors = EmptyBag
    /\ request = [hasCf |-> FALSE, colo |-> None]
    /\ lookups = <<>>
    /\ globalConfigCalls = <<>>
    /\ reader = NoStub

Next ==
    \/ \E cfgs \in ConfigLists : GetMultiStub(cfgs)
    \/ \E prop \in Members : ReadMember(prop)
    \/ \E prop \in Members, args \in ArgsAt(Len(calls) + 1) : ProxyCall(prop, args)
    \/ \E c \in DOMAIN calls : PrimaryFulfils(c)
    \/ \E c \in DOMAIN calls : PrimaryRejects(c)
    \/ \E c \in DOMAIN calls : \E i \in DOMAIN calls[c].sec : SecondaryFulfils(c, i)
    \/ \E c \in DOMAIN calls : \E i \in DOMAIN calls[c].sec : SecondaryRejects(c, i)

Spec == Init /\ [][Next]_vars

(***************************************************************************)
(* getGlobalStubs and the location functions applied to one request.       *)
(***************************************************************************)
ClosestStubError == "Failed to create closest stub"

CallGetClosestLocation ==
    /\ Len(lookups) < MaxRepeat
    /\ lookups' = Append(lookups, getClosestLocation(request))
    /\ UNCHANGED <<legacy, proxy, configs, thrown, resolved, stubs, calls, reads,
                   received, waitUntil, consoleErrors, request, globalConfigCalls,
                   reader>>

CallGetGlobalConfig ==
    /\ Len(globalConfigCalls) < MaxRepeat
    /\ globalConfigCalls' = Append(globalConfigCalls, getGlobalConfig)
    /\ UNCHANGED <<legacy, proxy, configs, thrown, resolved, stubs, calls, reads,
                   received, waitUntil, consoleErrors, request, lookups, reader>>

\* getGlobalStubs(request, env, ctx): getGlobalConfig, getClosestStub, then
\* getMultiStub over the global configs.
GetGlobalStubs ==
    /\ proxy = "none"
    /\ LET globalConfigs == getGlobalConfig
           closestStub == getClosestStub(request)
           r == GetMultiStubResult(globalConfigs)
       IN /\ configs' = globalConfigs
          /\ IF closestStub.ok
             THEN /\ proxy' = r.proxy
                  /\ thrown' = r.thrown
                  /\ resolved' = <<closestStub.stub>> \o r.resolved
                  /\ stubs' = r.stubs
                  /\ received' = [i \in 1..Len(r.stubs) |-> <<>>]
                  /\ reader' = IF r.proxy = "built" THEN closestStub.stub ELSE NoStub
             ELSE /\ proxy' = "failed"
                  /\ thrown' = ClosestStubError
                  /\ resolved' = <<>>
                  /\ stubs' = <<>>
                  /\ received' = <<>>
                  /\ reader' = NoStub
    /\ UNCHANGED <<legacy, calls, reads, waitUntil, consoleErrors, request, lookups,
                   globalConfigCalls>>

GlobalInit ==
    /\ legacy = {}
    /\ proxy = "none"
    /\ configs = <<>>
    /\ thrown = None
    /\ resolved = <<>>
    /\ stubs = <<>>
    /\ calls = <<>>
    /\ reads = <<>>
    /\ received = <<>>
    /\ waitUntil = <<>>
    /\ consoleErrors = EmptyBag
    /\ request \in Requests
    /\ lookups = <<>>
    /\ globalConfigCalls = <<>>
    /\ reader = NoStub

GlobalNext ==
    \/ CallGetClosestLocation
    \/ CallGetGlobalConfig
    \/ GetGlobalStubs

GlobalSpec == GlobalInit /\ [][GlobalNext]_vars

(***************************************************************************)
(* Properties.                                                             *)
(***************************************************************************)
CallIds == DOMAIN calls

\* The caller holds what the primary invocation produced, and nothing else.
AgreesWithPrimary(c) ==
    LET p == calls[c].primary
        r == calls[c].caller
    IN /\ p.state = "pending" => r = [state |-> "awaiting", value |-> None]
       /\ p.state = "fulfilled" => r = [state |-> "returned", value |-> p.value]
       /\ p.state \in {"rejected", "threw"} => r = [state |-> "raised", value |-> p.value]

\* The invocation [prop, args] of every call made through the proxy, in call order.
ProxyInvocations ==
    [c \in 1..Len(calls) |-> [prop |-> calls[c].prop, args |-> calls[c].args]]

\* C1: every call of a function member through the proxy is made once on the
\* primary stub with the caller's arguments, and the caller gets exactly what
\* that invocation produced (the value, the rejection or the thrown error),
\* whatever the secondaries do.
C1_CallerGetsPrimaryOutcome ==
    proxy = "built" =>
        /\ received[1] = ProxyInvocations
        /\ \A c \in CallIds : AgreesWithPrimary(c)

\* C1 witness: with two secondaries, the caller has the primary's value while
\* one secondary has failed and the other has not settled.
C1_Witness ==
    \E c \in CallIds :
        /\ DOMAIN calls[c].sec = {2, 3}
        /\ calls[c].primary.state = "fulfilled"
        /\ calls[c].caller = [state |-> "returned", value |-> calls[c].primary.value]
        /\ calls[c].sec[2].state = "rejected"
        /\ calls[c].sec[3].state = "pending"

\* C2 (as claimed): when every stub has the member as a function, each call
\* through the proxy reaches every secondary exactly once, with the member and
\* the argument list of the call.
C2_EverySecondaryInvokedOnce ==
    (proxy = "built" /\ \A i \in DOMAIN stubs : stubs[i].id \notin legacy) =>
        \A i \in SecondaryIndexes : received[i] = ProxyInvocations

\* C3: as soon as the primary invocation has an outcome the caller's call is
\* complete, whether or not the secondary invocations have settled.
C3_CallerNeverWaitsOnSecondaries ==
    \A c \in CallIds :
        calls[c].primary.state # "pending" => calls[c].caller.state # "awaiting"

\* C3 witness: the caller's call is complete and no secondary has settled.
C3_Witness ==
    \E c \in CallIds :
        /\ DOMAIN calls[c].sec = {2, 3}
        /\ calls[c].caller.state \in {"returned", "raised"}
        /\ \A i \in DOMAIN calls[c].sec : calls[c].sec[i].state = "pending"

\* C4: when a secondary invocation fails, every other secondary that has the
\* member as a function has still been invoked for that call, the background
\* promise does not reject (it is fulfilled once nothing is pending), and the
\* caller still holds the primary's outcome.
C4_SecondaryFailureIsolated ==
    \A c \in CallIds : \A i \in DOMAIN calls[c].sec :
        calls[c].sec[i].state = "rejected" =>
            /\ \A j \in DOMAIN calls[c].sec :
                  SecondaryCallable(j, calls[c].prop) =>
                      /\ calls[c].sec[j].state \in {"pending", "fulfilled", "rejected"}
                      /\ Len(received[j]) >=
                            Cardinality({d \in 1..c : j \in DOMAIN calls[d].sec})
            /\ calls[c].background \in {"pending", "fulfilled"}
            /\ (\A j \in DOMAIN calls[c].sec : calls[c].sec[j].state # "pending")
                  => calls[c].background = "fulfilled"
            /\ AgreesWithPrimary(c)

\* C4 witness: the first secondary threw or rejected, the second one was
\* invoked and succeeded, the background promise is fulfilled and the caller
\* has the primary's value.
C4_Witness ==
    \E c \in CallIds :
        /\ DOMAIN calls[c].sec = {2, 3}
        /\ calls[c].sec[2].state = "rejected"
        /\ calls[c].sec[3].state = "fulfilled"
        /\ calls[c].background = "fulfilled"
        /\ calls[c].caller.state = "returned"

\* C5: the background promise of a call is fulfilled only when no secondary
\* invocation of that call is still pending.
C5_BackgroundWaitsForAll ==
    \A c \in CallIds :
        calls[c].background = "fulfilled" =>
            \A i \in DOMAIN calls[c].sec : calls[c].sec[i].state # "pending"

\* C5 witness: one secondary has failed, the other is still pending and the
\* background promise is still pending.
C5_Witness ==
    \E c \in CallIds :
        /\ DOMAIN calls[c].sec = {2, 3}
        /\ calls[c].sec[2].state = "rejected"
        /\ calls[c].sec[3].state = "pending"
        /\ calls[c].background = "pending"

\* C6 (as claimed): with at least one secondary, the k calls made through the
\* proxy have handed exactly k promises to ctx.waitUntil, one per call; with
\* the primary alone, none.
C6_OneRegistrationPerCall ==
    proxy = "built" =>
        /\ Len(stubs) >= 2 => waitUntil = [c \in 1..Len(calls) |-> c]
        /\ Len(stubs) = 1 => waitUntil = <<>>

\* C7: getMultiStub called with an empty list throws the empty-list Error and
\* has resolved no stub, invoked nothing and registered nothing.
C7_EmptyConfigsRejected ==
    (proxy # "none" /\ Len(configs) = 0) =>
        /\ proxy = "failed"
        /\ thrown = EmptyConfigError
        /\ resolved = <<>>
        /\ stubs = <<>>
        /\ received = <<>>
        /\ calls = <<>>
        /\ reads = <<>>
        /\ waitUntil = <<>>

\* C7 witness: getMultiStub has been called with the empty list.
C7_Witness == proxy = "failed" /\ Len(configs) = 0 /\ thrown = EmptyConfigError

\* A config with neither name nor id.
Keyless(config) == config.name = None /\ config.id = None

\* C8: getMultiStub called with a list that holds a config with neither name
\* nor id, at any position, throws the missing-key Error: there is no proxy and
\* no stub is ever invoked, not even those already resolved.
C8_KeylessConfigRejected ==
    (proxy # "none" /\ \E p \in DOMAIN configs : Keyless(configs[p])) =>
        /\ proxy = "failed"
        /\ thrown = MissingKeyError
        /\ stubs = <<>>
        /\ received = <<>>
        /\ calls = <<>>
        /\ reads = <<>>
        /\ waitUntil = <<>>

\* C8 witness: the keyless config is the last of three; the two before it had
\* been resolved when the Error was thrown.
C8_Witness ==
    /\ proxy = "failed"
    /\ Len(configs) = 3
    /\ Keyless(configs[3])
    /\ Len(resolved) = 2

\* C9: a read of a member that is not a function on the primary stub returns
\* the primary stub's value of that member, invokes no stub, registers nothing
\* and reports nothing.
C9_NonCallableReadPassesThrough ==
    [][reads' # reads =>
          /\ Len(reads') = Len(reads) + 1
          /\ LET r == reads'[Len(reads')]
             IN r.result = MemberValue(stubs[1], r.prop)
          /\ UNCHANGED <<calls, received, waitUntil, consoleErrors, stubs>>]_vars

\* C9 witness: with secondaries present, a member whose value is a string has
\* been read through the proxy.
C9_Witness ==
    /\ Len(stubs) >= 2
    /\ \E k \in DOMAIN reads : reads[k].prop = "name" /\ reads[k].result = stubs[1].id.key

\* The failed secondary invocations: call, stub index.
SecondaryFailures ==
    {f \in CallIds \X SecondaryIndexes :
        /\ f[2] \in DOMAIN calls[f[1]].sec
        /\ calls[f[1]].sec[f[2]].state = "rejected"}

Reports == [prop : Members, error : Errors]

NotPropagated ==
    \A c \in CallIds :
        calls[c].caller.state = "raised" =>
            /\ calls[c].primary.state \in {"threw", "rejected"}
            /\ calls[c].caller.value = calls[c].primary.value

\* C10 (as claimed): every report names the method and identifies the replica
\* that failed (it is the report of exactly one replica), and no secondary
\* failure reaches the caller.
C10_ReportIdentifiesReplica ==
    /\ \A r \in BagToSet(consoleErrors) :
          /\ r \in Reports
          /\ Cardinality({i \in SecondaryIndexes :
                \E f \in SecondaryFailures :
                    /\ f[2] = i
                    /\ calls[f[1]].prop = r.prop
                    /\ calls[f[1]].sec[i].value = r.error}) = 1
    /\ NotPropagated

\* C10 (amended): every failed secondary invocation is reported exactly once,
\* with the method name and the error and nothing that tells the replicas
\* apart, and no secondary failure reaches the caller.
C10_FailureReportedWithMethod ==
    /\ BagToSet(consoleErrors) \subseteq Reports
    /\ \A r \in Reports :
          CopiesIn(r, consoleErrors) =
              Cardinality({f \in SecondaryFailures :
                  /\ calls[f[1]].prop = r.prop
                  /\ calls[f[1]].sec[f[2]].value = r.error})
    /\ NotPropagated

\* C10 witness: both secondaries of a call have failed, there are two reports
\* for that method, and the caller has the primary's value.
C10_Witness ==
    \E c \in CallIds :
        /\ DOMAIN calls[c].sec = {2, 3}
        /\ calls[c].sec[2].state = "rejected"
        /\ calls[c].sec[3].state = "rejected"
        /\ calls[c].caller.state = "returned"
        /\ \E r \in BagToSet(consoleErrors) :
              r.prop = calls[c].prop /\ CopiesIn(r, consoleErrors) >= 2

\* The stub getMultiStub resolves for a config: by name when the name is a
\* non-empty string, by id otherwise.
StubOf(config) ==
    [id |-> IF config.name \notin {None, ""}
            THEN [from |-> "name", key |-> config.name]
            ELSE [from |-> "string", key |-> config.id],
     options |-> config.config]

\* C14: the stubs of the proxy are the stubs of the configs, in the caller's
\* order: the primary is the stub of the first config, secondary i the stub of
\* config i, and each config was resolved exactly once.
C14_OrderPreserved ==
    proxy = "built" =>
        /\ Len(stubs) = Len(configs)
        /\ \A p \in DOMAIN configs : stubs[p] = StubOf(configs[p])
        /\ Len(resolved) = Len(configs)
        /\ \A p \in DOMAIN configs : resolved[p] = StubOf(configs[p])
        /\ DOMAIN received = DOMAIN configs

\* C14 witness: a proxy over three different stubs, the first by name, the
\* second by id.
C14_Witness ==
    /\ proxy = "built"
    /\ Len(stubs) = 3
    /\ stubs[1].id = [from |-> "name", key |-> "a"]
    /\ stubs[2].id = [from |-> "string", key |-> "b"]
    /\ stubs[3].id = [from |-> "name", key |-> "c"]

\* The calls in which secondary i was invoked.
InvokedIn(cs, i) ==
    {c \in DOMAIN cs : i \in DOMAIN cs[c].sec /\ cs[c].sec[i].state # "skipped"}

\* C15: no retries: after k calls through the proxy the primary has received
\* exactly k invocations and a secondary exactly one for each call that
\* invoked it, whatever has failed since; no stub has received more than k.
C15_NoRetries ==
    proxy = "built" =>
        /\ Len(received[1]) = Len(calls)
        /\ \A i \in SecondaryIndexes :
              /\ Len(received[i]) = Cardinality(InvokedIn(calls, i))
              /\ Len(received[i]) <= Len(calls)

\* C15 witness: two calls were made; in the first the primary and a secondary
\* have both failed; each of the two stubs has received two invocations.
C15_Witness ==
    /\ Len(calls) = 2
    /\ calls[1].primary.state = "rejected"
    /\ 2 \in DOMAIN calls[1].sec
    /\ calls[1].sec[2].state = "rejected"
    /\ Len(received[1]) = 2
    /\ Len(received[2]) = 2

\* C16 (as claimed): with secondaries that all have the member as a function,
\* a call whose primary invocation fails (rejects or throws) has still
\* registered its background promise and invoked every secondary once with
\* the call's arguments.
C16_FanOutWhateverThePrimaryDoes ==
    (proxy = "built" /\ \A i \in DOMAIN stubs : stubs[i].id \notin legacy) =>
        \A c \in CallIds :
            (Len(stubs) >= 2 /\ calls[c].primary.state \in {"rejected", "threw"}) =>
                /\ \E k \in DOMAIN waitUntil : waitUntil[k] = c
                /\ \A i \in SecondaryIndexes :
                      /\ c \in InvokedIn(calls, i)
                      /\ received[i] = ProxyInvocations

\* The invocations secondary i should have received from the calls cs, in
\* call order.
InOrder(cs, i) ==
    LET ids == SelectSeq([c \in 1..Len(cs) |-> c], LAMBDA c : c \in InvokedIn(cs, i))
    IN [k \in 1..Len(ids) |-> [prop |-> cs[ids[k]].prop, args |-> cs[ids[k]].args]]

\* C17: the secondary invocations of a call and the registration of its
\* background promise happen in the step of the call itself, while the
\* primary is still pending, and never in a later step; so every secondary
\* receives the invocations of successive calls in call order.
C17_FanOutBeforeReturn ==
    [][proxy = "built" =>
          /\ (received' # received \/ waitUntil' # waitUntil)
                => Len(calls') = Len(calls) + 1
          /\ \A c \in DOMAIN calls' :
                calls'[c].primary.state = "pending" =>
                    /\ \A i \in SecondaryIndexes :
                          stubs[i].id \notin legacy => c \in InvokedIn(calls', i)
                    /\ Len(stubs) >= 2 => \E k \in DOMAIN waitUntil' : waitUntil'[k] = c
          /\ \A i \in SecondaryIndexes : received'[i] = InOrder(calls', i)]_vars

\* C17 witness: the second call was made while a secondary invocation of the
\* first was still pending; that secondary has received both, in call order.
C17_Witness ==
    /\ Len(calls) = 2
    /\ calls[2].primary.state = "pending"
    /\ 2 \in DOMAIN calls[1].sec
    /\ calls[1].sec[2].state = "pending"
    /\ received[2] = ProxyInvocations
    /\ waitUntil = <<1, 2>>

\* C19: a call is made through the proxy only if the member is a function on
\* the primary; in such a call a secondary without that function is skipped
\* (never invoked, nothing reported, the background promise not rejected), the
\* other secondaries are invoked and the caller holds the primary's outcome.
C19_NonCallableSecondarySkipped ==
    proxy = "built" =>
        /\ stubs[1].id \in legacy => calls = <<>>
        /\ BagCardinality(consoleErrors) = Cardinality(SecondaryFailures)
        /\ \A c \in CallIds : \A i \in DOMAIN calls[c].sec :
              /\ stubs[i].id \in legacy =>
                    /\ calls[c].sec[i].state = "skipped"
                    /\ received[i] = <<>>
              /\ stubs[i].id \notin legacy => c \in InvokedIn(calls, i)
              /\ calls[c].background \in {"pending", "fulfilled"}
              /\ AgreesWithPrimary(c)

\* C19 witness: the first secondary has no such function and was skipped, the
\* second was invoked and succeeded, nothing was reported, the background
\* promise is fulfilled and the caller has the primary's value.
C19_Witness ==
    \E c \in CallIds :
        /\ DOMAIN calls[c].sec = {2, 3}
        /\ stubs[2].id \in legacy
        /\ calls[c].sec[2].state = "skipped"
        /\ received[2] = <<>>
        /\ calls[c].sec[3].state = "fulfilled"
        /\ consoleErrors = EmptyBag
        /\ calls[c].background = "fulfilled"
        /\ calls[c].caller.state = "returned"

(***************************************************************************)
(* Properties of the location functions and of getGlobalStubs.             *)
(***************************************************************************)
\* The nine macro-regions, in the order getGlobalConfig lists them.
NineRegions == <<"wnam", "enam", "sam", "weur", "eeur", "apac", "oc", "afr", "me">>

Recognised(req) == req.hasCf /\ req.colo \in DOMAIN locationMap

C12_GlobalConfigFixed ==
    \A k \in DOMAIN globalConfigCalls :
        LET g == globalConfigCalls[k]
        IN /\ Len(g) = Len(NineRegions)
           /\ \A i \in DOMAIN g :
                 /\ g[i].config = NineRegions[i]
                 /\ g[i].name = "global-" \o NineRegions[i]
           /\ \A i, j \in DOMAIN g : g[i].name = g[j].name => i = j
           /\ g = globalConfigCalls[1]

\* C12 witness: a second call, after a lookup, on a request from FRA.
C12_Witness ==
    /\ Len(globalConfigCalls) = 2
    /\ Len(lookups) >= 1
    /\ request.colo = "FRA"

\* The stub of the replica of a region.
RegionStub(region) ==
    [id |-> [from |-> "name", key |-> "global-" \o region], options |-> region]

====
